---- MODULE Spec2Model ----
(***************************************************************************)
(* Two-phase vehicle inspection workflow (inspection service, assessment,  *)
(* photo and damage models).  The database tables are the state; every     *)
(* service function is one action of Spec.  SpecUploads interleaves the    *)
(* individual database calls of concurrent uploadPhotoByAngle requests.    *)
(***************************************************************************)
EXTENDS Integers, Sequences, FiniteSets, TLC

\* ------------------------------------------------------------------------
\* Bounds of the model
\* ------------------------------------------------------------------------
\* the clock read by new Date() advances at most MaxTime times in a behaviour
MaxTime == 4
\* at most MaxVersion photos are ever created for one (angle, phase) key
MaxVersion == 2
\* number of concurrent upload requests in SpecUploads
NumUploaders == 2
\* number of concurrent analysis and comparison requests in SpecAnalysis
NumAnalyzers == 2
\* number of analysis and comparison requests made in SpecCosts
MaxRequests == 3
\* number of provider objects that exist for one name: object 1 is the
\* singleton the provider's module exports
MaxInstances == 2
\* at most MaxFailures calls of a behaviour end with a failure of the provider
MaxFailures == 1
\* keys whose photo is replaced by a later upload in Spec
ReuploadKeys == {<<"return", "rear">>}
\* keys targeted by the concurrent upload requests of SpecUploads
ConcurrentKeys == {<<"pickup", "front">>, <<"pickup", "rear">>}

\* ------------------------------------------------------------------------
\* Enumerations
\* ------------------------------------------------------------------------
\* the five angles, in the order every loop of the service iterates them
angles == <<"front", "rear", "driver_side", "passenger_side", "roof">>

VehicleAngle == {angles[i] : i \in 1..Len(angles)}

AssessmentPhase == {"pickup", "return"}

AssessmentStatus == {"pickup_in_progress", "pickup_complete", "return_in_progress", "completed"}

\* the assessment id the database hands out, and the vehicle ids requests carry
AssessmentIds == {"a1"}

VehicleIds == {"", "veh-1"}

\* NULL of a nullable DATETIME column; a Date is a positive clock value
NULL == 0

NoPhotoId == <<>>

\* ------------------------------------------------------------------------
\* Location strings, as sequences of characters
\* ------------------------------------------------------------------------
Loc_150_100 == <<"x", ":", "1", "5", "0", ",", "y", ":", "1", "0", "0">>

Loc_260_100 == <<"x", ":", "2", "6", "0", ",", "y", ":", "1", "0", "0">>

Loc_150_150 == <<"x", ":", "1", "5", "0", ",", "y", ":", "1", "5", "0">>

Loc_200_80 == <<"x", ":", "2", "0", "0", ",", "y", ":", "8", "0">>

Loc_100_120 == <<"x", ":", "1", "0", "0", ",", "y", ":", "1", "2", "0">>

Loc_80_60 == <<"x", ":", "8", "0", ",", "y", ":", "6", "0">>

Loc_120_140 == <<"x", ":", "1", "2", "0", ",", "y", ":", "1", "4", "0">>

Loc_200_150 == <<"x", ":", "2", "0", "0", ",", "y", ":", "1", "5", "0">>

\* strings a provider can return that are not of the form x:<int>,y:<int>:
\* a negative coordinate and a NaN coordinate (Math.round of the prediction of
\* the inference API), a unit after the coordinates, a prefix before them, and
\* a semicolon as separator
Loc_neg5_100 == <<"x", ":", "-", "5", ",", "y", ":", "1", "0", "0">>

Loc_NaN_NaN == <<"x", ":", "N", "a", "N", ",", "y", ":", "N", "a", "N">>

Loc_150_100px == <<"x", ":", "1", "5", "0", ",", "y", ":", "1", "0", "0", "p", "x">>

Loc_at_150_100 == <<"a", "t", " ", "x", ":", "1", "5", "0", ",", "y", ":", "1", "0", "0">>

Loc_150_semicolon_100 == <<"x", ":", "1", "5", "0", ";", "y", ":", "1", "0", "0">>

Digits == {"0", "1", "2", "3", "4", "5", "6", "7", "8", "9"}

DigitVal(c) ==
    CASE c = "0" -> 0 [] c = "1" -> 1 [] c = "2" -> 2 [] c = "3" -> 3 [] c = "4" -> 4
      [] c = "5" -> 5 [] c = "6" -> 6 [] c = "7" -> 7 [] c = "8" -> 8 [] c = "9" -> 9

\* length of the longest run of digits of s that starts at position i (\d+ is greedy)
RECURSIVE DigitRun(_, _)
DigitRun(s, i) ==
    IF i <= Len(s) /\ s[i] \in Digits THEN 1 + DigitRun(s, i + 1) ELSE 0

\* parseInt(text, 10) of the n digits of s that start at position i
RECURSIVE parseInt(_, _, _)
parseInt(s, i, n) ==
    IF n = 0 THEN 0 ELSE parseInt(s, i, n - 1) * 10 + DigitVal(s[i + n - 1])

\* the regular expression x:(\d+),y:(\d+) matches s starting at position i
LocationMatchAt(s, i) ==
    LET n1 == DigitRun(s, i + 2)
        j  == i + 2 + n1
    IN  /\ i + 1 <= Len(s)
        /\ s[i] = "x"
        /\ s[i + 1] = ":"
        /\ n1 >= 1
        /\ j + 2 <= Len(s)
        /\ s[j] = ","
        /\ s[j + 1] = "y"
        /\ s[j + 2] = ":"
        /\ DigitRun(s, j + 3) >= 1

\* start of the leftmost match of the regular expression in s at or after i, 0 if none
RECURSIVE FirstMatch(_, _)
FirstMatch(s, i) ==
    IF i > Len(s) THEN 0
    ELSE IF LocationMatchAt(s, i) THEN i
    ELSE FirstMatch(s, i + 1)

\* location.match(/x:(\d+),y:(\d+)/): <<x, y>> of the leftmost match, or <<>>
\* (null) when the string has no match
matchLocation(location) ==
    LET i == FirstMatch(location, 1)
    IN  IF i = 0 THEN <<>>
        ELSE LET n1 == DigitRun(location, i + 2)
                 j  == i + 2 + n1
                 n2 == DigitRun(location, j + 3)
             IN  <<parseInt(location, i + 2, n1), parseInt(location, j + 3, n2)>>

\* the location strings the detections of the model carry
LocationStrings ==
    {Loc_150_100, Loc_150_150, Loc_260_100,
     Loc_200_80, Loc_100_120, Loc_80_60, Loc_120_140, Loc_200_150,
     Loc_neg5_100, Loc_NaN_NaN, Loc_150_100px, Loc_at_150_100, Loc_150_semicolon_100}

\* matchLocation, tabulated once over LocationStrings
ParsedLocations == [l \in LocationStrings |-> matchLocation(l)]

parseLocation(location) == ParsedLocations[location]

\* default of the threshold parameter of isDamageLocationMatch
DefaultThreshold == 50

\* isDamageLocationMatch that tests only its first argument for a parsed location
isDamageLocationMatch_firstOnly(damage1, damage2, threshold) ==
    LET loc1 == parseLocation(damage1.location)
        loc2 == parseLocation(damage2.location)
    IN  IF loc1 = <<>> THEN FALSE
        ELSE IF loc2 = <<>> THEN TRUE
        ELSE (loc1[1] - loc2[1]) * (loc1[1] - loc2[1])
               + (loc1[2] - loc2[2]) * (loc1[2] - loc2[2]) <= threshold * threshold

\* Math.sqrt(dx^2 + dy^2) <= threshold, compared on the squares (integers)
isDamageLocationMatch(damage1, damage2, threshold) ==
    LET loc1 == parseLocation(damage1.location)
        loc2 == parseLocation(damage2.location)
    IN  IF loc1 = <<>> \/ loc2 = <<>> THEN FALSE
        ELSE (loc1[1] - loc2[1]) * (loc1[1] - loc2[1])
               + (loc1[2] - loc2[2]) * (loc1[2] - loc2[2]) <= threshold * threshold

\* ------------------------------------------------------------------------
\* Detection providers and the provider registry
\* ------------------------------------------------------------------------
\* the provider objects of providerSetup, by the name they are registered under
ProviderNames == {"mock", "huggingface", "roboflow"}

\* names a caller may pass to setActiveProvider ('custom' has no provider object)
RequestedNames == ProviderNames \cup {"custom"}

\* activeProvider = null
NoProvider == "none"

\* process.env.AI_PROVIDER of the deployment
AI_PROVIDER == "roboflow"

\* the providers whose API key is set, and accepted by the inference API, in
\* the deployment
ConfiguredKeys == {"roboflow"}

\* images a request may upload for an angle
UploadImages(angle) ==
    IF angle = "front" THEN {"scratch.jpg", "two.jpg"}
    ELSE IF angle = "rear" THEN {"clean.jpg", "scratch.jpg"}
    ELSE {"clean.jpg"}

\* images of the requests of SpecAnalysis
AnalysisImages(angle) == IF angle = "front" THEN {"scratch.jpg"} ELSE {"clean.jpg"}

\* images of the requests of SpecProvider: the inference API fails on broken.jpg
ProviderImages(angle) ==
    IF angle = "front" THEN {"scratch.jpg"}
    ELSE IF angle = "rear" THEN {"clean.jpg", "broken.jpg"}
    ELSE {"clean.jpg"}

\* images of the requests of SpecLocations: the front photos carry a detection
\* with a location of every kind
LocationImages(angle) ==
    IF angle = "front"
    THEN {"scratch.jpg", "two.jpg", "negative.jpg", "nan.jpg", "unit.jpg", "prefix.jpg",
          "semicolon.jpg"}
    ELSE {"clean.jpg"}

\* images of the requests of SpecCosts: a scratch on the front pickup photo, the
\* same scratch within the threshold and a second damage on the front return photo
CostImages(angle, phase) ==
    IF angle # "front" THEN {"clean.jpg"}
    ELSE IF phase = "pickup" THEN {"scratch.jpg"}
    ELSE {"two.jpg"}

\* MockProvider.generatePickupDamages
generatePickupDamages(angle) ==
    CASE angle = "front" ->
            <<[severity |-> "minor", location |-> Loc_150_100, estimatedCost |-> 150]>>
      [] angle = "rear" ->
            <<[severity |-> "moderate", location |-> Loc_200_80, estimatedCost |-> 450]>>
      [] angle = "passenger_side" ->
            <<[severity |-> "minor", location |-> Loc_100_120, estimatedCost |-> 200]>>
      [] OTHER -> <<>>

\* MockProvider.generateReturnDamages
generateReturnDamages(angle) ==
    CASE angle = "front" ->
            <<[severity |-> "minor", location |-> Loc_150_100, estimatedCost |-> 150],
              [severity |-> "severe", location |-> Loc_80_60, estimatedCost |-> 800]>>
      [] angle = "rear" ->
            <<[severity |-> "moderate", location |-> Loc_200_80, estimatedCost |-> 450]>>
      [] angle = "driver_side" ->
            <<[severity |-> "severe", location |-> Loc_120_140, estimatedCost |-> 650]>>
      [] angle = "passenger_side" ->
            <<[severity |-> "minor", location |-> Loc_100_120, estimatedCost |-> 200]>>
      [] OTHER ->
            <<[severity |-> "moderate", location |-> Loc_200_150, estimatedCost |-> 1200]>>

\* the detections the inference API of the Roboflow and HuggingFace providers
\* returns for an image
detectedDamages(storagePath) ==
    CASE storagePath = "scratch.jpg" ->
            <<[severity |-> "minor", location |-> Loc_150_100, estimatedCost |-> 150]>>
      [] storagePath = "two.jpg" ->
            <<[severity |-> "moderate", location |-> Loc_150_150, estimatedCost |-> 450],
              [severity |-> "severe", location |-> Loc_260_100, estimatedCost |-> 800]>>
      [] storagePath = "negative.jpg" ->
            <<[severity |-> "minor", location |-> Loc_neg5_100, estimatedCost |-> 150]>>
      [] storagePath = "nan.jpg" ->
            <<[severity |-> "minor", location |-> Loc_NaN_NaN, estimatedCost |-> 150]>>
      [] storagePath = "unit.jpg" ->
            <<[severity |-> "minor", location |-> Loc_150_100px, estimatedCost |-> 150]>>
      [] storagePath = "prefix.jpg" ->
            <<[severity |-> "minor", location |-> Loc_at_150_100, estimatedCost |-> 150]>>
      [] storagePath = "semicolon.jpg" ->
            <<[severity |-> "minor", location |-> Loc_150_semicolon_100, estimatedCost |-> 150]>>
      [] OTHER -> <<>>

\* provider.analyzePhoto(photo, angle, phase): the PhotoAnalysis, or the
\* exception the provider throws when its inference request fails
providerAnalyzePhoto(name, photo) ==
    IF name = "mock"
    THEN [ok |-> TRUE,
          detectedDamages |-> IF photo.phase = "pickup" THEN generatePickupDamages(photo.angle)
                              ELSE generateReturnDamages(photo.angle)]
    ELSE IF photo.storagePath = "broken.jpg"
    THEN [ok |-> FALSE, detectedDamages |-> <<>>]
    ELSE [ok |-> TRUE, detectedDamages |-> detectedDamages(photo.storagePath)]

\* AIService.analyzePhoto falling back to the mock provider when none is active
analyzePhoto_fallback(active, photo) ==
    providerAnalyzePhoto(IF active = NoProvider THEN "mock" ELSE active, photo)

\* AIService.analyzePhoto: getActiveProvider throws without an active provider,
\* every exception is rethrown as 'AI analysis failed'
analyzePhoto(active, photo) ==
    IF active = NoProvider THEN [ok |-> FALSE, detectedDamages |-> <<>>]
    ELSE providerAnalyzePhoto(active, photo)

\* the provider invoked for a photo, with the photo: none when none is active
invokedProviders(active, photo) ==
    IF active = NoProvider THEN {} ELSE {<<active, photo.id>>}

\* ------------------------------------------------------------------------
\* State
\* ------------------------------------------------------------------------
VARIABLES
    assessments,   \* table assessments: id -> row
    photos,        \* table photos: set of rows
    photoSeq,      \* number of photo rows ever created per (phase, angle): id generator
    damages,       \* table damages: rows in creation order (row id = position)
    providers,     \* registry: the names in the providers map
    activeProvider,\* registry: the active provider, NoProvider for null
    activated,     \* the name passed to the latest setActiveProvider call that returned
    failures,      \* number of calls that ended with a failure of the provider
    invoked,       \* <<provider, photo id>> of the provider calls of the latest request
    reply,         \* body of the latest phase-status response
    summary,       \* body of the latest damage-summary response
    instances,     \* registry: the provider object the providers map holds for each
                   \* name, and the object activeProvider refers to (0 for none)
    env,           \* process.env.AI_PROVIDER, and the providers whose API key the
                   \* inference API accepts at the moment
    analyses,      \* the analysis requests in flight (SpecAnalysis)
    clock,         \* the time new Date() returns: it advances with every call that reads it
    last,          \* the latest service call, its outcome, and whether it repeats
                   \* the successful analysis or comparison call right before it
    uploads        \* the upload requests in flight (SpecUploads)

vars == <<assessments, photos, photoSeq, damages, providers, activeProvider, activated,
          failures, clock, invoked, reply, summary, last, uploads, analyses, env, instances>>

dbvars == <<assessments, photos, photoSeq, damages>>

\* the registry and the environment its providers read
registry == <<providers, activeProvider, activated, env, instances>>

\* what the handlers of the inspection routes never write
others == <<registry, reply, summary, uploads, analyses>>

PhotoKeys == AssessmentPhase \X VehicleAngle

IdleUpload == [pc |-> "idle", angle |-> "front", phase |-> "pickup", storagePath |-> "clean.jpg", existing |-> FALSE]

IdleAnalysis == [pc |-> "idle", op |-> "none", i |-> 1, invoked |-> {}, newCost |-> 0]

NoReply == [phase |-> "none", isComplete |-> FALSE, capturedAngles |-> <<>>, missingAngles |-> <<>>]

\* no damage-summary response was sent yet
NoSummary == <<>>

\* the tables are empty, the registry is new, no request was made
InitState ==
    /\ assessments = <<>>
    /\ photos = {}
    /\ photoSeq = [k \in PhotoKeys |-> 0]
    /\ damages = <<>>
    /\ providers = {}
    /\ activeProvider = NoProvider
    /\ activated = NoProvider
    /\ instances = [registered |-> [n \in ProviderNames |-> 0], active |-> 0]
    /\ failures = 0
    /\ clock = 0
    /\ reply = NoReply
    /\ summary = NoSummary
    /\ analyses = [w \in 1..NumAnalyzers |-> IdleAnalysis]
    /\ invoked = {}
    /\ last = [op |-> "none", result |-> "ok", again |-> FALSE]
    /\ uploads = [u \in 1..NumUploaders |-> IdleUpload]

Init ==
    /\ env = [AI_PROVIDER |-> AI_PROVIDER, validKeys |-> ConfiguredKeys]
    /\ InitState

\* provider.validateConfig(): the mock provider is always valid, the others
\* are valid when their API key is set and the inference API accepts it
validateConfig(name) == name = "mock" \/ name \in env.validKeys

\* setActiveProvider: 'Provider not found', 'Provider configuration invalid',
\* or the assignment of activeProvider
setActiveOutcome(registered, name) ==
    IF name \notin registered THEN "not_found"
    ELSE IF ~validateConfig(name) THEN "invalid"
    ELSE "ok"

\* activeProvider after setActiveProvider when the assignment precedes validateConfig
activeAfterSetActive_eager(registered, active, name) ==
    IF name \in registered THEN name ELSE active

\* activeProvider after setActiveProvider(name): assigned on the last line,
\* which a throw never reaches
activeAfterSetActive(registered, active, name) ==
    IF setActiveOutcome(registered, name) = "ok" THEN name ELSE active


\* the call of op comes right after a successful call of the same function
Repeats(op) == last.op = op /\ last.result = "ok"

\* ------------------------------------------------------------------------
\* Assessment model
\* ------------------------------------------------------------------------
getAssessmentById(id) == id \in DOMAIN assessments

createAssessment(id) ==
    id :> [status |-> "pickup_in_progress", totalDamageCost |-> 0, newDamageCost |-> 0,
           pickupAnalyzedAt |-> NULL, returnAnalyzedAt |-> NULL, completedAt |-> NULL]

\* POST /assessments: createAssessmentHandler and startAssessment
startAssessment(id, vehicleId) ==
    /\ id \notin DOMAIN assessments
    /\ IF vehicleId = ""
       THEN /\ last' = [op |-> "startAssessment", result |-> "validation_error", again |-> FALSE]
            /\ UNCHANGED assessments
       ELSE /\ assessments' = createAssessment(id)
            /\ last' = [op |-> "startAssessment", result |-> "ok", again |-> FALSE]
    /\ invoked' = {}
    /\ UNCHANGED <<photos, photoSeq, damages, clock, failures, others>>

\* updateAssessmentStatus
updateAssessmentStatus(row, status) == [row EXCEPT !.status = status]

\* updateAssessmentCosts
updateAssessmentCosts(row, totalCost, newCost) ==
    [row EXCEPT !.totalDamageCost = totalCost, !.newDamageCost = newCost]

\* markPickupAnalyzed without the write of pickupAnalyzedAt
markPickupAnalyzed_unstamped(row, date) == row

\* markPickupAnalyzed: pickupAnalyzedAt = new Date()
markPickupAnalyzed(row, date) == [row EXCEPT !.pickupAnalyzedAt = date]

\* markReturnAnalyzed that also completes the assessment
markReturnAnalyzed_completing(row, date) ==
    [row EXCEPT !.returnAnalyzedAt = date, !.status = "completed", !.completedAt = date]

\* markReturnAnalyzed: returnAnalyzedAt = new Date()
markReturnAnalyzed(row, date) == [row EXCEPT !.returnAnalyzedAt = date]

\* markAssessmentCompleted: status = 'completed', completedAt = new Date()
markAssessmentCompleted(row, date) == [row EXCEPT !.status = "completed", !.completedAt = date]

\* the set of angles that is required to have a photo when some_ replaces every
validateAllAnglesComplete_some(photoRows, phase) ==
    \E angle \in VehicleAngle : \E p \in photoRows : p.phase = phase /\ p.angle = angle

\* validateAllAnglesComplete: every required angle has a photo of the phase
validateAllAnglesComplete(photoRows, phase) ==
    LET photoAngles == {p.angle : p \in {q \in photoRows : q.phase = phase}}
    IN  \A angle \in VehicleAngle : angle \in photoAngles

\* getMissingAngles counting the photos of both phases
getMissingAngles_anyPhase(photoRows, phase) ==
    LET photoAngles == {p.angle : p \in photoRows}
    IN  SelectSeq(angles, LAMBDA angle : angle \notin photoAngles)

\* getMissingAngles: requiredAngles.filter(angle => !photoAngles.has(angle))
getMissingAngles(photoRows, phase) ==
    LET photoAngles == {p.angle : p \in {q \in photoRows : q.phase = phase}}
    IN  SelectSeq(angles, LAMBDA angle : angle \notin photoAngles)

\* ------------------------------------------------------------------------
\* Photo model
\* ------------------------------------------------------------------------
\* findUnique on (assessmentId, angle, phase): the set holding the row, {} for null
getPhotoByAngleAndPhase(photoRows, angle, phase) ==
    LET rows == {p \in photoRows : p.angle = angle /\ p.phase = phase}
    IN  IF rows = {} THEN {} ELSE {CHOOSE p \in rows : TRUE}

\* prisma.photo.create without the unique index on (assessmentId, angle, phase)
savePhotoAllowed_noindex(photoRows, angle, phase) == TRUE

\* the unique index photos_assessmentId_angle_phase_key lets create succeed
\* only when no row has the key
savePhotoAllowed(photoRows, angle, phase) ==
    ~\E p \in photoRows : p.angle = angle /\ p.phase = phase

\* the row prisma.photo.create inserts; n is the number of rows created
\* for the key before, so the id is fresh
savePhoto(angle, phase, storagePath, n) ==
    [id |-> <<phase, angle, n + 1>>, angle |-> angle, phase |-> phase, storagePath |-> storagePath]

\* prisma.photo.delete on the unique key
deletePhotoByAngleAndPhase(photoRows, angle, phase) ==
    photoRows \ getPhotoByAngleAndPhase(photoRows, angle, phase)

\* damages_photoId_fkey ... ON DELETE SET NULL
photoIdSetNull(dmgs, deleted) ==
    [i \in DOMAIN dmgs |->
        IF \E p \in deleted : dmgs[i].photoId = p.id
        THEN [dmgs[i] EXCEPT !.photoId = NoPhotoId] ELSE dmgs[i]]

\* position of an angle in the order of angles
AngleIndex(angle) == CHOOSE i \in 1..Len(angles) : angles[i] = angle

\* bound on the upload requests of SpecQueries: one photo per key, in any order
FirstUpload(angle, phase) == photoSeq[<<phase, angle>>] = 0

\* bound on the upload requests of Spec: the first photo of an angle is
\* uploaded after the first photos of the angles before it (the order in which
\* the client sends the photos of a phase), and only the keys of ReuploadKeys
\* receive further photos, at most MaxVersion in all
MayUpload(angle, phase) ==
    IF photoSeq[<<phase, angle>>] = 0
    THEN \A i \in 1..(AngleIndex(angle) - 1) : photoSeq[<<phase, angles[i]>>] > 0
    ELSE <<phase, angle>> \in ReuploadKeys /\ photoSeq[<<phase, angle>>] < MaxVersion

\* uploadPhotoByAngle, run without interleaving
uploadPhotoByAngle(id, angle, phase, storagePath) ==
    LET existing == getPhotoByAngleAndPhase(photos, angle, phase)
        remaining == IF existing # {} THEN deletePhotoByAngleAndPhase(photos, angle, phase)
                     ELSE photos
    IN  /\ IF getAssessmentById(id) /\ savePhotoAllowed(remaining, angle, phase)
           THEN /\ photos' = remaining
                      \cup {savePhoto(angle, phase, storagePath, photoSeq[<<phase, angle>>])}
                /\ photoSeq' = [photoSeq EXCEPT ![<<phase, angle>>] = @ + 1]
                /\ damages' = photoIdSetNull(damages, existing)
                /\ last' = [op |-> "uploadPhoto", result |-> "ok", again |-> FALSE]
           ELSE \* photos_assessmentId_fkey or the unique index rejects the insert
                /\ photos' = remaining
                /\ damages' = photoIdSetNull(damages, existing)
                /\ last' = [op |-> "uploadPhoto", result |-> "error", again |-> FALSE]
                /\ UNCHANGED photoSeq
        /\ invoked' = {}
        /\ UNCHANGED <<assessments, clock, failures, others>>

\* ------------------------------------------------------------------------
\* Damage model
\* ------------------------------------------------------------------------
\* saveDamage storing isNew = true for the return phase
saveDamage_flagged(angle, phase, damage, photoId, isNew) ==
    [angle |-> angle, phase |-> phase, photoId |-> photoId, severity |-> damage.severity,
     location |-> damage.location, estimatedCost |-> damage.estimatedCost,
     isNew |-> (phase = "return")]

\* saveDamage: the row prisma.damage.create inserts
saveDamage(angle, phase, damage, photoId, isNew) ==
    [angle |-> angle, phase |-> phase, photoId |-> photoId, severity |-> damage.severity,
     location |-> damage.location, estimatedCost |-> damage.estimatedCost,
     isNew |-> isNew]

\* ids of the damage rows of an angle and phase
getDamagesByAngleAndPhase(dmgs, angle, phase) ==
    {i \in DOMAIN dmgs : dmgs[i].angle = angle /\ dmgs[i].phase = phase}

\* markDamageAsNew flipping the flag instead of setting it
markDamageAsNew_toggle(row) == [row EXCEPT !.isNew = ~@]

\* markDamageAsNew: isNew = true
markDamageAsNew(row) == [row EXCEPT !.isNew = TRUE]

\* sum of estimatedCost over the rows with ids in ids
RECURSIVE SumUpTo(_, _, _)
SumUpTo(dmgs, ids, n) ==
    IF n = 0 THEN 0
    ELSE (IF n \in ids THEN dmgs[n].estimatedCost ELSE 0) + SumUpTo(dmgs, ids, n - 1)

SumCost(dmgs, ids) == SumUpTo(dmgs, ids, Len(dmgs))

\* calculateTotalDamageCost summing the rows of the pickup phase only
calculateTotalDamageCost_pickupOnly(dmgs) ==
    SumCost(dmgs, {i \in DOMAIN dmgs : dmgs[i].phase = "pickup"})

\* calculateTotalDamageCost: _sum of estimatedCost over the assessment's rows, || 0
calculateTotalDamageCost(dmgs) == SumCost(dmgs, DOMAIN dmgs)

\* calculateNewDamageCost: _sum of estimatedCost over the rows with isNew
calculateNewDamageCost(dmgs) == SumCost(dmgs, {i \in DOMAIN dmgs : dmgs[i].isNew})

\* ------------------------------------------------------------------------
\* Inspection service: analysis
\* ------------------------------------------------------------------------
\* one iteration of the loop over the angles: an angle without photo is
\* skipped; the photo goes to aiService.analyzePhoto, whose exception leaves
\* the loop and the function; every detection is saved with isNew = false.
\* run = [damages: the table, invoked: the provider calls, failed: thrown]
analyzeAngle(active, photoRows, phase, angle, run) ==
    LET found == getPhotoByAngleAndPhase(photoRows, angle, phase)
    IN  IF found = {} THEN run
        ELSE LET photo == CHOOSE p \in found : TRUE
                 analysis == analyzePhoto(active, photo)
                 saved == [k \in 1..Len(analysis.detectedDamages) |->
                              saveDamage(angle, phase, analysis.detectedDamages[k], photo.id, FALSE)]
             IN  [damages |-> run.damages \o saved,
                  invoked |-> run.invoked \cup invokedProviders(active, photo),
                  failed |-> ~analysis.ok]

\* the loop of analyzePickupPhotos / analyzeReturnPhotos from angle number i on
RECURSIVE analyzeAngles(_, _, _, _, _)
analyzeAngles(active, photoRows, phase, i, run) ==
    IF i > Len(angles) \/ run.failed THEN run
    ELSE analyzeAngles(active, photoRows, phase, i + 1,
                       analyzeAngle(active, photoRows, phase, angles[i], run))

analyzePickupPhotos(id) ==
    /\ IF ~getAssessmentById(id)
       THEN /\ last' = [op |-> "analyzePickup", result |-> "not_found", again |-> FALSE]
            /\ invoked' = {}
            /\ UNCHANGED <<dbvars, clock, failures>>
       ELSE IF ~validateAllAnglesComplete(photos, "pickup")
       THEN /\ last' = [op |-> "analyzePickup", result |-> "phase_incomplete", again |-> FALSE]
            /\ invoked' = {}
            /\ UNCHANGED <<dbvars, clock, failures>>
       ELSE LET run == analyzeAngles(activeProvider, photos, "pickup", 1,
                                     [damages |-> damages, invoked |-> {}, failed |-> FALSE])
                totalCost == calculateTotalDamageCost(run.damages)
            IN  IF run.failed
                THEN \* the exception reaches analyzePickupHandler: 500
                     /\ failures < MaxFailures
                     /\ failures' = failures + 1
                     /\ damages' = run.damages
                     /\ invoked' = run.invoked
                     /\ last' = [op |-> "analyzePickup", result |-> "error", again |-> FALSE]
                     /\ UNCHANGED <<assessments, photos, photoSeq, clock>>
                ELSE /\ clock < MaxTime
                     /\ clock' = clock + 1
                     /\ damages' = run.damages
                     /\ invoked' = run.invoked
                     /\ assessments' = [assessments EXCEPT ![id] =
                           updateAssessmentCosts(
                               updateAssessmentStatus(markPickupAnalyzed(@, clock'), "pickup_complete"),
                               totalCost, 0)]
                     /\ last' = [op |-> "analyzePickup", result |-> "ok", again |-> Repeats("analyzePickup")]
                     /\ UNCHANGED <<photos, photoSeq, failures>>
    /\ UNCHANGED others

analyzeReturnPhotos(id) ==
    /\ IF ~getAssessmentById(id)
       THEN /\ last' = [op |-> "analyzeReturn", result |-> "not_found", again |-> FALSE]
            /\ invoked' = {}
            /\ UNCHANGED <<dbvars, clock, failures>>
       ELSE IF ~validateAllAnglesComplete(photos, "return")
       THEN /\ last' = [op |-> "analyzeReturn", result |-> "phase_incomplete", again |-> FALSE]
            /\ invoked' = {}
            /\ UNCHANGED <<dbvars, clock, failures>>
       ELSE LET run == analyzeAngles(activeProvider, photos, "return", 1,
                                     [damages |-> damages, invoked |-> {}, failed |-> FALSE])
            IN  IF run.failed
                THEN \* the exception reaches analyzeReturnHandler: 500
                     /\ failures < MaxFailures
                     /\ failures' = failures + 1
                     /\ damages' = run.damages
                     /\ invoked' = run.invoked
                     /\ last' = [op |-> "analyzeReturn", result |-> "error", again |-> FALSE]
                     /\ UNCHANGED <<assessments, photos, photoSeq, clock>>
                ELSE /\ clock < MaxTime
                     /\ clock' = clock + 1
                     /\ damages' = run.damages
                     /\ invoked' = run.invoked
                     /\ assessments' = [assessments EXCEPT ![id] = markReturnAnalyzed(@, clock')]
                     /\ last' = [op |-> "analyzeReturn", result |-> "ok", again |-> Repeats("analyzeReturn")]
                     /\ UNCHANGED <<photos, photoSeq, failures>>
    /\ UNCHANGED others

\* ------------------------------------------------------------------------
\* Inspection service: comparison
\* ------------------------------------------------------------------------
\* the return damages of an angle for which the inner loop finds no pickup
\* damage of the angle with isDamageLocationMatch
unmatchedReturnDamages(dmgs, angle) ==
    {r \in getDamagesByAngleAndPhase(dmgs, angle, "return") :
        ~\E p \in getDamagesByAngleAndPhase(dmgs, angle, "pickup") :
            isDamageLocationMatch(dmgs[r], dmgs[p], DefaultThreshold)}

comparePhotosAndDamages(id) ==
    /\ IF ~getAssessmentById(id)
       THEN /\ last' = [op |-> "compare", result |-> "not_found", again |-> FALSE]
            /\ UNCHANGED <<dbvars, clock>>
       ELSE LET marked == UNION {unmatchedReturnDamages(damages, angles[i]) : i \in 1..Len(angles)}
                totalNewDamageCost == SumCost(damages, marked)
                flagged == [i \in DOMAIN damages |->
                               IF i \in marked THEN markDamageAsNew(damages[i]) ELSE damages[i]]
                totalCost == calculateTotalDamageCost(flagged)
            IN  /\ clock < MaxTime
                /\ clock' = clock + 1
                /\ damages' = flagged
                /\ assessments' = [assessments EXCEPT ![id] =
                      markAssessmentCompleted(updateAssessmentCosts(@, totalCost, totalNewDamageCost), clock')]
                /\ last' = [op |-> "compare", result |-> "ok", again |-> Repeats("compare")]
                /\ UNCHANGED <<photos, photoSeq>>
    /\ invoked' = {}
    /\ UNCHANGED <<failures, others>>

\* ------------------------------------------------------------------------
\* Inspection service: reporting and status
\* ------------------------------------------------------------------------
\* getPhaseStatus and getPhaseStatusHandler: the function reads the photos of
\* the phase only and always returns a status, which the handler sends with 200
getPhaseStatus(id, phase) ==
    LET isComplete == validateAllAnglesComplete(photos, phase)
        missingAngles == getMissingAngles(photos, phase)
        missing == {missingAngles[i] : i \in 1..Len(missingAngles)}
        capturedAngles == SelectSeq(angles, LAMBDA a : a \notin missing)
    IN  /\ reply' = [phase |-> phase, isComplete |-> isComplete,
                     capturedAngles |-> capturedAngles, missingAngles |-> missingAngles]
        /\ last' = [op |-> "getPhaseStatus", result |-> "ok", again |-> FALSE]
        /\ invoked' = {}
        /\ UNCHANGED <<dbvars, registry, failures, clock, summary, uploads, analyses>>

\* getNewDamages(assessmentId, angle): ids of the rows of the angle with isNew
getNewDamages(dmgs, angle) == {i \in DOMAIN dmgs : dmgs[i].isNew /\ dmgs[i].angle = angle}

\* the object getDamageSummary returns: the numbers of pickup, return and new
\* damage rows per angle and the costs stored in the assessment row
damageSummary(row, dmgs) ==
    [pickupDamages |-> [a \in VehicleAngle |->
                          Cardinality(getDamagesByAngleAndPhase(dmgs, a, "pickup"))],
     returnDamages |-> [a \in VehicleAngle |->
                          Cardinality(getDamagesByAngleAndPhase(dmgs, a, "return"))],
     newDamages |-> [a \in VehicleAngle |-> Cardinality(getNewDamages(dmgs, a))],
     costSummary |-> [totalCost |-> row.totalDamageCost, newCost |-> row.newDamageCost]]

\* getDamageSummary and getDamageSummaryHandler: 404 when the assessment is missing
getDamageSummary(id) ==
    /\ IF getAssessmentById(id)
       THEN /\ summary' = damageSummary(assessments[id], damages)
            /\ last' = [op |-> "getDamageSummary", result |-> "ok", again |-> FALSE]
       ELSE /\ last' = [op |-> "getDamageSummary", result |-> "not_found", again |-> FALSE]
            /\ UNCHANGED summary
    /\ invoked' = {}
    /\ UNCHANGED <<dbvars, registry, failures, clock, reply, uploads, analyses>>

\* ------------------------------------------------------------------------
\* Provider registry and its set-up
\* ------------------------------------------------------------------------
\* registerProvider: providers.set(name, provider)
registerProvider(name, provider) ==
    /\ providers' = providers \cup {name}
    /\ instances' = [instances EXCEPT !.registered[name] = provider]
    /\ last' = [op |-> "registerProvider", result |-> "ok", again |-> FALSE]
    /\ invoked' = {}
    /\ UNCHANGED <<dbvars, activeProvider, activated, env, failures, clock, reply, summary, uploads, analyses>>

\* setActiveProvider, called by switchAIProvider: this.activeProvider = provider,
\* the object the map holds for the name
setActiveProvider(name) ==
    /\ activeProvider' = activeAfterSetActive(providers, activeProvider, name)
    /\ activated' = IF setActiveOutcome(providers, name) = "ok" THEN name ELSE activated
    /\ instances' = IF setActiveOutcome(providers, name) = "ok"
                    THEN [instances EXCEPT !.active = instances.registered[name]]
                    ELSE instances
    /\ last' = [op |-> "setActiveProvider", result |-> setActiveOutcome(providers, name),
                again |-> FALSE]
    /\ invoked' = {}
    /\ UNCHANGED <<dbvars, providers, env, failures, clock, reply, summary, uploads, analyses>>

\* the providers map after the registrations of initializeAIProviders: the
\* singletons of the mock provider and of the providers with a valid configuration
singletonsRegistered ==
    [n \in ProviderNames |->
        IF n = "mock" \/ validateConfig(n) THEN 1 ELSE instances.registered[n]]

\* initializeAIProviders without the fallback of its catch block
initializeAIProviders_nofallback ==
    LET registered == providers \cup {"mock"}
                        \cup {n \in {"huggingface", "roboflow"} : validateConfig(n)}
    IN  /\ providers' = registered
        /\ activeProvider' = activeAfterSetActive(registered, activeProvider, env.AI_PROVIDER)
        /\ activated' = IF setActiveOutcome(registered, env.AI_PROVIDER) = "ok"
                        THEN env.AI_PROVIDER ELSE activated
        /\ instances' = [registered |-> singletonsRegistered,
                         active |-> IF setActiveOutcome(registered, env.AI_PROVIDER) = "ok"
                                    THEN singletonsRegistered[env.AI_PROVIDER]
                                    ELSE instances.active]
        /\ last' = [op |-> "initializeAIProviders", result |-> "ok", again |-> FALSE]
        /\ invoked' = {}
        /\ UNCHANGED <<dbvars, env, failures, clock, reply, summary, uploads, analyses>>

\* initializeAIProviders: the mock provider and
\* the providers with a valid configuration are registered, AI_PROVIDER is
\* made active, with the mock provider as fallback
initializeAIProviders ==
    LET registered == providers \cup {"mock"}
                        \cup {n \in {"huggingface", "roboflow"} : validateConfig(n)}
        first == activeAfterSetActive(registered, activeProvider, env.AI_PROVIDER)
        chosen == IF setActiveOutcome(registered, env.AI_PROVIDER) = "ok" THEN first
                  ELSE activeAfterSetActive(registered, first, "mock")
    IN  /\ providers' = registered
        /\ activeProvider' = chosen
        /\ activated' = IF setActiveOutcome(registered, env.AI_PROVIDER) = "ok"
                        THEN env.AI_PROVIDER ELSE "mock"
        /\ instances' = [registered |-> singletonsRegistered,
                         active |-> singletonsRegistered[chosen]]
        /\ last' = [op |-> "initializeAIProviders", result |-> "ok", again |-> FALSE]
        /\ invoked' = {}
        /\ UNCHANGED <<dbvars, env, failures, clock, reply, summary, uploads, analyses>>

\* the inspection routes are served once the start-up has run
Serving == "mock" \in providers

\* ------------------------------------------------------------------------
\* Concurrent upload requests: one action per database call of
\* uploadPhotoByAngle
\* ------------------------------------------------------------------------
\* const existing = await getPhotoByAngleAndPhase(...)
UploadCheck(u, angle, phase, storagePath) ==
    /\ uploads[u].pc = "idle"
    /\ <<phase, angle>> \in ConcurrentKeys
    /\ photoSeq[<<phase, angle>>] < MaxVersion
    /\ uploads' = [uploads EXCEPT ![u] =
          [pc |-> "checked", angle |-> angle, phase |-> phase, storagePath |-> storagePath,
           existing |-> (getPhotoByAngleAndPhase(photos, angle, phase) # {})]]
    /\ UNCHANGED <<dbvars, clock, failures, invoked, last, registry, reply, summary, analyses>>

\* if (existing) await deletePhotoByAngleAndPhase(...); prisma.photo.delete
\* throws when the row is gone
UploadDelete(u) ==
    LET r == uploads[u]
        found == getPhotoByAngleAndPhase(photos, r.angle, r.phase)
    IN  /\ r.pc = "checked"
        /\ r.existing
        /\ IF found = {}
           THEN /\ uploads' = [uploads EXCEPT ![u] = IdleUpload]
                /\ last' = [op |-> "uploadPhoto", result |-> "error", again |-> FALSE]
                /\ UNCHANGED <<photos, damages>>
           ELSE /\ photos' = deletePhotoByAngleAndPhase(photos, r.angle, r.phase)
                /\ damages' = photoIdSetNull(damages, found)
                /\ uploads' = [uploads EXCEPT ![u].pc = "deleted"]
                /\ UNCHANGED last
        /\ UNCHANGED <<assessments, photoSeq, clock, failures, invoked, registry, reply, summary, analyses>>

\* const photo = await savePhoto(...)
UploadSave(u, id) ==
    LET r == uploads[u]
    IN  /\ \/ r.pc = "deleted"
           \/ r.pc = "checked" /\ ~r.existing
        /\ IF getAssessmentById(id) /\ savePhotoAllowed(photos, r.angle, r.phase)
           THEN /\ photos' = photos
                      \cup {savePhoto(r.angle, r.phase, r.storagePath, photoSeq[<<r.phase, r.angle>>])}
                /\ photoSeq' = [photoSeq EXCEPT ![<<r.phase, r.angle>>] = @ + 1]
                /\ last' = [op |-> "uploadPhoto", result |-> "ok", again |-> FALSE]
           ELSE /\ last' = [op |-> "uploadPhoto", result |-> "error", again |-> FALSE]
                /\ UNCHANGED <<photos, photoSeq>>
        /\ uploads' = [uploads EXCEPT ![u] = IdleUpload]
        /\ UNCHANGED <<assessments, damages, clock, failures, invoked, registry, reply, summary, analyses>>

\* ------------------------------------------------------------------------
\* Concurrent analysis and comparison requests: the awaited calls of
\* analyzePickupPhotos, analyzeReturnPhotos and comparePhotosAndDamages
\* ------------------------------------------------------------------------
PhaseOf(op) == IF op = "analyzePickup" THEN "pickup" ELSE "return"

\* getAssessmentById and validateAllAnglesComplete at the head of an analysis
AnalyzeBegin(w, id, op) ==
    /\ analyses[w].pc = "idle"
    /\ IF ~getAssessmentById(id)
       THEN /\ last' = [op |-> op, result |-> "not_found", again |-> FALSE]
            /\ invoked' = {}
            /\ UNCHANGED analyses
       ELSE IF ~validateAllAnglesComplete(photos, PhaseOf(op))
       THEN /\ last' = [op |-> op, result |-> "phase_incomplete", again |-> FALSE]
            /\ invoked' = {}
            /\ UNCHANGED analyses
       ELSE /\ analyses' = [analyses EXCEPT ![w] = [IdleAnalysis EXCEPT !.pc = "loop", !.op = op]]
            /\ UNCHANGED <<last, invoked>>
    /\ UNCHANGED <<dbvars, registry, failures, clock, reply, summary, uploads>>

\* one iteration of the loop over the angles
AnalyzeStep(w) ==
    LET r == analyses[w]
        run == analyzeAngle(activeProvider, photos, PhaseOf(r.op), angles[r.i],
                            [damages |-> damages, invoked |-> r.invoked, failed |-> FALSE])
    IN  /\ r.pc = "loop"
        /\ damages' = run.damages
        /\ IF run.failed
           THEN /\ failures < MaxFailures
                /\ failures' = failures + 1
                /\ analyses' = [analyses EXCEPT ![w] = IdleAnalysis]
                /\ invoked' = run.invoked
                /\ last' = [op |-> r.op, result |-> "error", again |-> FALSE]
           ELSE /\ analyses' = [analyses EXCEPT ![w] =
                      [r EXCEPT !.i = r.i + 1, !.invoked = run.invoked,
                                !.pc = IF r.i = Len(angles) THEN "finish" ELSE "loop"]]
                /\ UNCHANGED <<failures, invoked, last>>
        /\ UNCHANGED <<assessments, photos, photoSeq, registry, clock, reply, summary, uploads>>

\* the writes to the assessment after the loop
AnalyzeFinish(w, id) ==
    LET r == analyses[w]
    IN  /\ r.pc = "finish"
        /\ clock < MaxTime
        /\ clock' = clock + 1
        /\ assessments' = [assessments EXCEPT ![id] =
              IF r.op = "analyzePickup"
              THEN updateAssessmentCosts(
                       updateAssessmentStatus(markPickupAnalyzed(@, clock'), "pickup_complete"),
                       calculateTotalDamageCost(damages), 0)
              ELSE markReturnAnalyzed(@, clock')]
        /\ invoked' = r.invoked
        /\ last' = [op |-> r.op, result |-> "ok", again |-> Repeats(r.op)]
        /\ analyses' = [analyses EXCEPT ![w] = IdleAnalysis]
        /\ UNCHANGED <<photos, photoSeq, damages, registry, failures, reply, summary, uploads>>

\* getAssessmentById and the loop of comparePhotosAndDamages
CompareBegin(w, id) ==
    /\ analyses[w].pc = "idle"
    /\ IF ~getAssessmentById(id)
       THEN /\ last' = [op |-> "compare", result |-> "not_found", again |-> FALSE]
            /\ invoked' = {}
            /\ UNCHANGED <<analyses, damages>>
       ELSE LET marked == UNION {unmatchedReturnDamages(damages, angles[i]) : i \in 1..Len(angles)}
            IN  /\ damages' = [i \in DOMAIN damages |->
                                  IF i \in marked THEN markDamageAsNew(damages[i]) ELSE damages[i]]
                /\ analyses' = [analyses EXCEPT ![w] =
                      [IdleAnalysis EXCEPT !.pc = "costs", !.op = "compare",
                                           !.newCost = SumCost(damages, marked)]]
                /\ UNCHANGED <<last, invoked>>
    /\ UNCHANGED <<assessments, photos, photoSeq, registry, failures, clock, reply, summary, uploads>>

\* calculateTotalDamageCost, updateAssessmentCosts and markAssessmentCompleted
CompareFinish(w, id) ==
    LET r == analyses[w]
    IN  /\ r.pc = "costs"
        /\ clock < MaxTime
        /\ clock' = clock + 1
        /\ assessments' = [assessments EXCEPT ![id] =
              markAssessmentCompleted(
                  updateAssessmentCosts(@, calculateTotalDamageCost(damages), r.newCost), clock')]
        /\ invoked' = {}
        /\ last' = [op |-> "compare", result |-> "ok", again |-> Repeats("compare")]
        /\ analyses' = [analyses EXCEPT ![w] = IdleAnalysis]
        /\ UNCHANGED <<photos, photoSeq, damages, registry, failures, reply, summary, uploads>>

NextUploads ==
    \/ \E id \in AssessmentIds, v \in VehicleIds : startAssessment(id, v)
    \/ \E u \in 1..NumUploaders, a \in VehicleAngle, ph \in AssessmentPhase :
          \E img \in UploadImages(a) : UploadCheck(u, a, ph, img)
    \/ \E u \in 1..NumUploaders : UploadDelete(u)
    \/ \E u \in 1..NumUploaders, id \in AssessmentIds : UploadSave(u, id)

SpecUploads == Init /\ [][NextUploads]_vars

Next ==
    \/ ~Serving /\ initializeAIProviders
    \/ \E id \in AssessmentIds, v \in VehicleIds : Serving /\ startAssessment(id, v)
    \/ \E id \in AssessmentIds, a \in VehicleAngle, ph \in AssessmentPhase :
          \E img \in UploadImages(a) :
             Serving /\ MayUpload(a, ph) /\ uploadPhotoByAngle(id, a, ph, img)
    \/ \E id \in AssessmentIds : Serving /\ analyzePickupPhotos(id)
    \/ \E id \in AssessmentIds : Serving /\ analyzeReturnPhotos(id)
    \/ \E id \in AssessmentIds : Serving /\ comparePhotosAndDamages(id)

Spec == Init /\ [][Next]_vars

\* the registry driven directly (registerProvider, setActiveProvider and the
\* set-up function in any order) around pickup uploads and analyzePickup calls
NextProvider ==
    \/ initializeAIProviders
    \/ \E name \in ProviderNames : registerProvider(name, 1)
    \/ \E name \in RequestedNames : setActiveProvider(name)
    \/ \E id \in AssessmentIds, v \in VehicleIds : startAssessment(id, v)
    \/ \E id \in AssessmentIds, a \in VehicleAngle :
          \E img \in ProviderImages(a) :
             MayUpload(a, "pickup") /\ uploadPhotoByAngle(id, a, "pickup", img)
    \/ \E id \in AssessmentIds : analyzePickupPhotos(id)

SpecProvider == Init /\ [][NextProvider]_vars

\* a deployment: any value of AI_PROVIDER that names a provider or none, any
\* set of accepted API keys
InitSetup ==
    /\ env \in [AI_PROVIDER : RequestedNames, validKeys : SUBSET (ProviderNames \ {"mock"})]
    /\ InitState

\* the inference API starts or stops accepting the key of a provider
keyChange(name) ==
    /\ env' = [env EXCEPT !.validKeys = IF name \in @ THEN @ \ {name} ELSE @ \cup {name}]
    /\ UNCHANGED <<dbvars, providers, activeProvider, activated, instances, failures, clock,
                   invoked, reply, summary, last, uploads, analyses>>

\* the start-up and the registry calls under every deployment
NextSetup ==
    \/ initializeAIProviders
    \/ \E name \in ProviderNames : registerProvider(name, 1)
    \/ \E name \in RequestedNames : setActiveProvider(name)
    \/ \E name \in ProviderNames \ {"mock"} : keyChange(name)

SpecSetup == InitSetup /\ [][NextSetup]_vars

\* analysis and comparison requests interleaved with each other and with one
\* upload request that replaces the rear pickup photo, after the pickup photos
\* were uploaded one by one
NextAnalysis ==
    \/ ~Serving /\ initializeAIProviders
    \/ \E id \in AssessmentIds : Serving /\ startAssessment(id, "veh-1")
    \/ \E id \in AssessmentIds, a \in VehicleAngle :
          \E img \in AnalysisImages(a) :
             /\ Serving /\ FirstUpload(a, "pickup") /\ MayUpload(a, "pickup")
             /\ uploadPhotoByAngle(id, a, "pickup", img)
    \/ \E img \in AnalysisImages("rear") :
          Serving /\ ~FirstUpload("rear", "pickup") /\ UploadCheck(1, "rear", "pickup", img)
    \/ UploadDelete(1)
    \/ \E id \in AssessmentIds : UploadSave(1, id)
    \/ \E w \in 1..NumAnalyzers, id \in AssessmentIds :
          \E op \in {"analyzePickup", "analyzeReturn"} : Serving /\ AnalyzeBegin(w, id, op)
    \/ \E w \in 1..NumAnalyzers : AnalyzeStep(w)
    \/ \E w \in 1..NumAnalyzers, id \in AssessmentIds : AnalyzeFinish(w, id)
    \/ \E w \in 1..NumAnalyzers, id \in AssessmentIds : Serving /\ CompareBegin(w, id)
    \/ \E w \in 1..NumAnalyzers, id \in AssessmentIds : CompareFinish(w, id)

SpecAnalysis == Init /\ [][NextAnalysis]_vars

\* uploads and the read-only routes
NextQueries ==
    \/ \E id \in AssessmentIds, v \in VehicleIds : startAssessment(id, v)
    \/ \E id \in AssessmentIds, a \in VehicleAngle, ph \in AssessmentPhase :
          FirstUpload(a, ph) /\ uploadPhotoByAngle(id, a, ph, "clean.jpg")
    \/ \E id \in AssessmentIds, ph \in AssessmentPhase : getPhaseStatus(id, ph)
    \/ \E id \in AssessmentIds : getDamageSummary(id)

SpecQueries == Init /\ [][NextQueries]_vars

\* a workflow of uploads, analyses and comparisons in any order of the calls,
\* with the summary route
NextSummary ==
    \/ ~Serving /\ initializeAIProviders
    \/ \E id \in AssessmentIds : Serving /\ startAssessment(id, "veh-1")
    \/ \E id \in AssessmentIds, a \in VehicleAngle, ph \in AssessmentPhase :
          \E img \in UploadImages(a) :
             /\ Serving /\ FirstUpload(a, ph) /\ MayUpload(a, ph)
             /\ uploadPhotoByAngle(id, a, ph, img)
    \/ \E id \in AssessmentIds : Serving /\ analyzePickupPhotos(id)
    \/ \E id \in AssessmentIds : Serving /\ analyzeReturnPhotos(id)
    \/ \E id \in AssessmentIds : Serving /\ comparePhotosAndDamages(id)
    \/ \E id \in AssessmentIds : getDamageSummary(id)

SpecSummary == Init /\ [][NextSummary]_vars

\* workflows whose front photos carry well-formed and malformed locations
NextLocations ==
    \/ ~Serving /\ initializeAIProviders
    \/ \E id \in AssessmentIds : Serving /\ startAssessment(id, "veh-1")
    \/ \E id \in AssessmentIds, a \in VehicleAngle, ph \in AssessmentPhase :
          \E img \in LocationImages(a) :
             /\ Serving /\ FirstUpload(a, ph) /\ MayUpload(a, ph)
             /\ uploadPhotoByAngle(id, a, ph, img)
    \/ \E id \in AssessmentIds : Serving /\ analyzePickupPhotos(id)
    \/ \E id \in AssessmentIds : Serving /\ analyzeReturnPhotos(id)
    \/ \E id \in AssessmentIds : Serving /\ comparePhotosAndDamages(id)

SpecLocations == Init /\ [][NextLocations]_vars

\* all requests for the assessment were preceded by the uploads of its photos
AllUploaded == \A k \in PhotoKeys : photoSeq[k] > 0

\* number of analysis and comparison requests made: those in flight and those
\* that have finished (each stamps the assessment with a new Date())
RequestsMade == clock + Cardinality({w \in 1..NumAnalyzers : analyses[w].pc # "idle"})

\* bound on the requests of SpecCosts: MaxRequests requests are made for the
\* assessment after its ten photos were uploaded, and a request is served by
\* the first idle worker
MayRequest(w) ==
    /\ AllUploaded
    /\ RequestsMade < MaxRequests
    /\ \A v \in 1..(w - 1) : analyses[v].pc # "idle"

\* analysis and comparison requests interleaved with each other on an
\* assessment whose ten photos were uploaded
NextCosts ==
    \/ ~Serving /\ initializeAIProviders
    \/ \E id \in AssessmentIds : Serving /\ startAssessment(id, "veh-1")
    \/ \E id \in AssessmentIds, a \in VehicleAngle, ph \in AssessmentPhase :
          \E img \in CostImages(a, ph) :
             /\ Serving /\ FirstUpload(a, ph) /\ MayUpload(a, ph)
             /\ ph = "return" => photoSeq[<<"pickup", "roof">>] > 0
             /\ uploadPhotoByAngle(id, a, ph, img)
    \/ \E w \in 1..NumAnalyzers, id \in AssessmentIds :
          \E op \in {"analyzePickup", "analyzeReturn"} : MayRequest(w) /\ AnalyzeBegin(w, id, op)
    \/ \E w \in 1..NumAnalyzers : AnalyzeStep(w)
    \/ \E w \in 1..NumAnalyzers, id \in AssessmentIds : AnalyzeFinish(w, id)
    \/ \E w \in 1..NumAnalyzers, id \in AssessmentIds : MayRequest(w) /\ CompareBegin(w, id)
    \/ \E w \in 1..NumAnalyzers, id \in AssessmentIds : CompareFinish(w, id)

SpecCosts == Init /\ [][NextCosts]_vars

\* MaxRequests pickup analysis requests, made one after the other once the
\* pickup photos were uploaded, interleaved with switchAIProvider calls
NextSwitch ==
    \/ ~Serving /\ initializeAIProviders
    \/ \E id \in AssessmentIds : Serving /\ startAssessment(id, "veh-1")
    \/ \E id \in AssessmentIds, a \in VehicleAngle :
          \E img \in AnalysisImages(a) :
             /\ Serving /\ FirstUpload(a, "pickup") /\ MayUpload(a, "pickup")
             /\ uploadPhotoByAngle(id, a, "pickup", img)
    \/ \E name \in RequestedNames : Serving /\ setActiveProvider(name)
    \/ \E id \in AssessmentIds :
          /\ Serving /\ RequestsMade < MaxRequests
          /\ validateAllAnglesComplete(photos, "pickup")
          /\ AnalyzeBegin(1, id, "analyzePickup")
    \/ AnalyzeStep(1)
    \/ \E id \in AssessmentIds : AnalyzeFinish(1, id)

SpecSwitch == Init /\ [][NextSwitch]_vars

\* the registry under every sequence of its calls, with up to MaxInstances
\* provider objects per name
NextRegistry ==
    \/ initializeAIProviders
    \/ \E name \in ProviderNames, provider \in 1..MaxInstances : registerProvider(name, provider)
    \/ \E name \in RequestedNames : setActiveProvider(name)

SpecRegistry == InitSetup /\ [][NextRegistry]_vars

\* ------------------------------------------------------------------------
\* Properties
\* ------------------------------------------------------------------------
StatusRank(status) ==
    CASE status = "pickup_in_progress" -> 1
      [] status = "pickup_complete" -> 2
      [] status = "return_in_progress" -> 3
      [] status = "completed" -> 4

\* angles of a phase that have a photo
PhotographedAngles(phase) == {p.angle : p \in {q \in photos : q.phase = phase}}

\* ids of the damage rows flagged isNew
NewDamageIds(dmgs) == {i \in DOMAIN dmgs : dmgs[i].isNew}

\* squared Euclidean distance of the coordinates two location strings carry
SquaredDistance(l1, l2) ==
    LET a == matchLocation(l1)
        b == matchLocation(l2)
    IN  (a[1] - b[1]) * (a[1] - b[1]) + (a[2] - b[2]) * (a[2] - b[2])

\* C1: the status of an assessment never moves backward in the order
\* pickup_in_progress < pickup_complete < return_in_progress < completed,
\* whatever service call is made; once completed it stays completed.
C1_StatusNeverRegresses ==
    [][\A id \in DOMAIN assessments :
          StatusRank(assessments'[id].status) >= StatusRank(assessments[id].status)]_vars

\* C2: analyzePickup / analyzeReturn called on an existing assessment while
\* fewer than 5 angles of the phase have a photo reports phase_incomplete and
\* changes nothing: no damage row, no provider call, assessment row unchanged.
C2_IncompleteAnalyzeFailsWhole ==
    [][\A phase \in AssessmentPhase :
          (/\ last'.op = (IF phase = "pickup" THEN "analyzePickup" ELSE "analyzeReturn")
           /\ DOMAIN assessments # {}
           /\ Cardinality(PhotographedAngles(phase)) < 5)
          => (/\ last'.result = "phase_incomplete"
              /\ damages' = damages
              /\ invoked' = {}
              /\ assessments' = assessments)]_vars

\* C2 witness: analyzeReturn was refused on an assessment that has some, but
\* not all, return photos and already has damage rows.
C2_Witness ==
    /\ last.op = "analyzeReturn"
    /\ last.result = "phase_incomplete"
    /\ PhotographedAngles("return") # {}
    /\ damages # <<>>

\* C3: once an analyze or compare call has succeeded, the stored
\* totalDamageCost equals the sum of estimatedCost over all damage rows.
C3_TotalCostIsSumOfDamages ==
    \A id \in DOMAIN assessments :
        (\/ assessments[id].pickupAnalyzedAt # NULL
         \/ assessments[id].returnAnalyzedAt # NULL
         \/ assessments[id].completedAt # NULL)
        => assessments[id].totalDamageCost = SumCost(damages, DOMAIN damages)

\* C4: right after a compare call, a return damage is flagged isNew exactly
\* when no pickup damage of the same angle lies within distance 50 of it.
C4_IsNewIffNoPickupWithinThreshold ==
    (last.op = "compare" /\ last.result = "ok")
    => \A r \in DOMAIN damages :
          damages[r].phase = "return"
          => (damages[r].isNew
              <=> ~\E p \in DOMAIN damages :
                      /\ damages[p].phase = "pickup"
                      /\ damages[p].angle = damages[r].angle
                      /\ SquaredDistance(damages[r].location, damages[p].location) <= 50 * 50)

\* C5: a compare call that directly follows a successful compare call leaves
\* newDamageCost, totalDamageCost and the set of isNew damages unchanged.
C5_RecompareIsIdempotent ==
    [][(/\ last.op = "compare" /\ last.result = "ok"
        /\ last'.op = "compare" /\ last'.result = "ok")
       => \A id \in DOMAIN assessments :
             /\ assessments'[id].newDamageCost = assessments[id].newDamageCost
             /\ assessments'[id].totalDamageCost = assessments[id].totalDamageCost
             /\ NewDamageIds(damages') = NewDamageIds(damages)]_vars

\* C5 witness: compare has just been repeated on a completed assessment whose
\* first comparison flagged new damages with a positive cost.
C5_Witness ==
    /\ last.op = "compare"
    /\ last.again
    /\ NewDamageIds(damages) # {}
    /\ \E id \in DOMAIN assessments :
          assessments[id].status = "completed" /\ assessments[id].newDamageCost > 0

\* C6: once a compare call has run, the stored newDamageCost equals the sum of
\* estimatedCost over the damage rows flagged isNew.
C6_NewCostIsSumOfNewDamages ==
    \A id \in DOMAIN assessments :
        assessments[id].completedAt # NULL
        => assessments[id].newDamageCost = SumCost(damages, NewDamageIds(damages))

\* C7: a return-phase damage row or a stamped returnAnalyzedAt exists only
\* when pickupAnalyzedAt is stamped.
C7_ReturnAnalyzedOnlyAfterPickup ==
    \A id \in DOMAIN assessments :
        (\/ assessments[id].returnAnalyzedAt # NULL
         \/ \E i \in DOMAIN damages : damages[i].phase = "return")
        => assessments[id].pickupAnalyzedAt # NULL

\* C8: status completed implies that pickupAnalyzedAt and returnAnalyzedAt
\* are both stamped (compare is refused before both phases are analyzed).
C8_CompletedOnlyAfterBothAnalyzed ==
    \A id \in DOMAIN assessments :
        assessments[id].status = "completed"
        => /\ assessments[id].pickupAnalyzedAt # NULL
           /\ assessments[id].returnAnalyzedAt # NULL

C11_ReplacedPhotoRetiresDamages ==
    [][\A k \in PhotoKeys :
          (/\ last'.op = "uploadPhoto"
           /\ last'.result = "ok"
           /\ \E old \in photos : /\ old.phase = k[1] /\ old.angle = k[2]
                                  /\ old \notin photos'
                                  /\ \E i \in DOMAIN damages : damages[i].photoId = old.id)
          => getDamagesByAngleAndPhase(damages', k[2], k[1]) = {}]_vars

\* C19: a successful analyzePickup on an assessment in pickup_in_progress
\* appends, for each angle, exactly the detections the active provider returns
\* for the pickup photo of the angle (attributed to the angle, phase pickup,
\* that photo, isNew = false), keeps the rows that existed, sets status to
\* pickup_complete and stamps pickupAnalyzedAt.
C19_PickupAnalysisPersistsDetections ==
    [][(/\ last'.op = "analyzePickup"
        /\ last'.result = "ok"
        /\ \A id \in DOMAIN assessments : assessments[id].status = "pickup_in_progress")
       => LET added == SubSeq(damages', Len(damages) + 1, Len(damages'))
          IN  /\ SubSeq(damages', 1, Len(damages)) = damages
              /\ \A a \in VehicleAngle :
                    LET photo == CHOOSE p \in photos : p.angle = a /\ p.phase = "pickup"
                        rows == SelectSeq(added, LAMBDA r : r.angle = a)
                        expected == providerAnalyzePhoto(activeProvider, photo).detectedDamages
                    IN  /\ Len(rows) = Len(expected)
                        /\ \A k \in 1..Len(rows) :
                              /\ rows[k].severity = expected[k].severity
                              /\ rows[k].location = expected[k].location
                              /\ rows[k].estimatedCost = expected[k].estimatedCost
                              /\ rows[k].phase = "pickup"
                              /\ rows[k].photoId = photo.id
                              /\ ~rows[k].isNew
              /\ \A id \in DOMAIN assessments :
                    /\ assessments'[id].status = "pickup_complete"
                    /\ assessments'[id].pickupAnalyzedAt # NULL
                    /\ assessments'[id].pickupAnalyzedAt > assessments[id].pickupAnalyzedAt]_vars

\* C19 witness: the first analysis of an assessment was a successful
\* analyzePickup that saved detections of two angles.
C19_Witness ==
    /\ last.op = "analyzePickup"
    /\ last.result = "ok"
    /\ clock = 1
    /\ \E i, j \in DOMAIN damages : damages[i].angle # damages[j].angle
    /\ \E id \in DOMAIN assessments : assessments[id].status = "pickup_complete"

C14_FailedAnalysisLeavesNoTrace ==
    [][(last'.op \in {"analyzePickup", "analyzeReturn"} /\ last'.result = "error")
       => /\ damages' = damages
          /\ assessments' = assessments]_vars

\* C15: setActiveProvider returns only for a registered name whose
\* validateConfig() is true and then makes that provider active; a call that
\* fails (name not registered, or configuration invalid) leaves activeProvider
\* as it was.
C15_FailedSetActiveKeepsActive ==
    [][last'.op = "setActiveProvider"
       => IF last'.result = "ok"
          THEN /\ activated' \in providers
               /\ validateConfig(activated')
               /\ activeProvider' = activated'
          ELSE /\ activeProvider' = activeProvider
               /\ activated' = activated]_vars

\* C15 witness: a setActiveProvider call has just failed on an invalid
\* configuration while a provider activated earlier is active.
C15_Witness ==
    /\ last.op = "setActiveProvider"
    /\ last.result = "invalid"
    /\ activeProvider = "roboflow"
    /\ "huggingface" \in providers

\* C16: an analysis that reaches the provider calls only the provider named
\* in the latest successful setActiveProvider, for every photo it analyzes;
\* when no setActiveProvider has succeeded the call fails and no provider is
\* invoked.
C16_AnalysisUsesActivatedProvider ==
    (last.op \in {"analyzePickup", "analyzeReturn"} /\ last.result \in {"ok", "error"})
    => IF activated = NoProvider
       THEN last.result = "error" /\ invoked = {}
       ELSE /\ invoked # {}
            /\ \A call \in invoked : call[1] = activated
            /\ last.result = "ok" => Cardinality(invoked) = Len(angles)

\* C16 witness: analyzePickup has run with the mock provider, activated by
\* a switch after the roboflow provider had failed on a photo.
C16_Witness ==
    /\ last.op = "analyzePickup"
    /\ last.result = "ok"
    /\ activated = "mock"
    /\ "roboflow" \in providers
    /\ failures > 0
    /\ Cardinality(invoked) = Len(angles)

\* C17: in every phase-status response, missingAngles lists exactly the
\* required angles without a photo of the phase, in the order front, rear,
\* driver_side, passenger_side, roof; capturedAngles is disjoint from it, the
\* two together are the 5 angles, and isComplete holds iff missingAngles is empty.
C17_PhaseStatusPartitionsAngles ==
    last.op = "getPhaseStatus"
    => LET missing == {reply.missingAngles[i] : i \in 1..Len(reply.missingAngles)}
           captured == {reply.capturedAngles[i] : i \in 1..Len(reply.capturedAngles)}
       IN  /\ missing = VehicleAngle \ PhotographedAngles(reply.phase)
           /\ \A i, j \in 1..Len(reply.missingAngles) :
                 i < j => AngleIndex(reply.missingAngles[i]) < AngleIndex(reply.missingAngles[j])
           /\ captured \cap missing = {}
           /\ captured \cup missing = VehicleAngle
           /\ Cardinality(captured) = Len(reply.capturedAngles)
           /\ reply.isComplete <=> reply.missingAngles = <<>>

\* C17 witness: the status of the return phase was requested while its rear
\* and passenger_side photos exist, the others are missing, and all pickup
\* angles have photos.
C17_Witness ==
    /\ last.op = "getPhaseStatus"
    /\ reply.phase = "return"
    /\ reply.missingAngles = <<"front", "driver_side", "roof">>
    /\ PhotographedAngles("pickup") = VehicleAngle

\* C18: a photo upload, phase status, analyzePickup, analyzeReturn, compare or
\* summary request made while the assessment does not exist reports not_found
\* and creates no photo, no damage row and no provider call.
C18_MissingAssessmentIsNotFound ==
    [][(/\ last'.op \in {"uploadPhoto", "getPhaseStatus", "analyzePickup",
                         "analyzeReturn", "compare", "getDamageSummary"}
        /\ DOMAIN assessments = {})
       => /\ last'.result = "not_found"
          /\ photos' = photos
          /\ damages' = damages
          /\ invoked' = {}]_vars

\* C12: under every interleaving of analysis and comparison requests on an
\* assessment, the damage rows saved for a photo are those of one detection
\* run: no photo has more rows than the provider detects on it.
C12_OneDetectionRunPerPhoto ==
    \A p \in photos :
        Cardinality({i \in DOMAIN damages : damages[i].photoId = p.id})
            <= Len(providerAnalyzePhoto(activeProvider, p).detectedDamages)

\* C13: under every interleaving of a replacing upload with an analysis, an
\* analysis that succeeds has handed a photo of every one of the 5 angles to
\* the provider.
C13_SuccessfulAnalysisCoversAllAngles ==
    (last.op \in {"analyzePickup", "analyzeReturn"} /\ last.result = "ok")
    => {call[2][2] : call \in invoked} = VehicleAngle

\* C21: a successful analyzeReturn on an assessment whose status is
\* pickup_complete leaves the assessment in status return_in_progress.
C21_ReturnAnalysisEntersReturnInProgress ==
    [][(last'.op = "analyzeReturn" /\ last'.result = "ok")
       => \A id \in DOMAIN assessments :
             assessments[id].status = "pickup_complete"
             => assessments'[id].status = "return_in_progress"]_vars

\* the severities a detection carries
DamageSeverity == {"minor", "moderate", "severe"}

\* C22: the summary just returned reports, for each of the 5 angles, the
\* numbers of pickup, return and isNew damage rows of the angle (new never
\* above return) and, for each severity, the number of rows and of isNew rows;
\* without any damage row every count and both costs are zero.
C22_SummaryCountsByAngleAndSeverity ==
    (last.op = "getDamageSummary" /\ last.result = "ok")
    => /\ \A a \in VehicleAngle :
             /\ summary.pickupDamages[a]
                  = Cardinality({i \in DOMAIN damages :
                                    damages[i].angle = a /\ damages[i].phase = "pickup"})
             /\ summary.returnDamages[a]
                  = Cardinality({i \in DOMAIN damages :
                                    damages[i].angle = a /\ damages[i].phase = "return"})
             /\ summary.newDamages[a]
                  = Cardinality({i \in DOMAIN damages : damages[i].angle = a /\ damages[i].isNew})
             /\ summary.newDamages[a] <= summary.returnDamages[a]
       /\ damages = <<>>
          => /\ summary.costSummary.totalCost = 0
             /\ summary.costSummary.newCost = 0
       /\ "severityDistribution" \in DOMAIN summary
       /\ \A s \in DamageSeverity :
             /\ summary.severityDistribution[s].total
                  = Cardinality({i \in DOMAIN damages : damages[i].severity = s})
             /\ summary.severityDistribution[s].new
                  = Cardinality({i \in DOMAIN damages :
                                    damages[i].severity = s /\ damages[i].isNew})

\* C23: when initializeAIProviders returns, a provider is active: the one
\* AI_PROVIDER names if it is registered and its validateConfig() is true, and
\* the mock provider otherwise; a provider that is unregistered or fails
\* validation is never made active by the set-up.
C23_SetupActivatesConfiguredOrMock ==
    [][(last'.op = "initializeAIProviders" /\ env' = env)
       => /\ activeProvider' # NoProvider
          /\ activeProvider' \in providers'
          /\ activeProvider' = "mock" \/ activeProvider' \in env.validKeys
          /\ activeProvider' =
                IF /\ env.AI_PROVIDER \in providers'
                   /\ (env.AI_PROVIDER = "mock" \/ env.AI_PROVIDER \in env.validKeys)
                THEN env.AI_PROVIDER ELSE "mock"]_vars

\* C23 witness: the set-up has fallen back to the mock provider although the
\* provider AI_PROVIDER names is registered, because its key is not accepted,
\* and replaced the provider that was active before.
C23_Witness ==
    /\ last.op = "initializeAIProviders"
    /\ activeProvider = "mock"
    /\ activated = "mock"
    /\ env.AI_PROVIDER = "huggingface"
    /\ "huggingface" \in providers
    /\ "huggingface" \notin env.validKeys

\* every character of s from position i to position j is a digit, and i <= j
AllDigits(s, i, j) == i <= j /\ \A k \in i..j : s[k] \in Digits

\* the whole string has the form x:<int>,y:<int> with non-negative integers
ExactLocation(s) ==
    /\ Len(s) >= 7
    /\ s[1] = "x"
    /\ s[2] = ":"
    /\ \E j \in 4..(Len(s) - 3) :
          /\ AllDigits(s, 3, j - 1)
          /\ s[j] = ","
          /\ s[j + 1] = "y"
          /\ s[j + 2] = ":"
          /\ AllDigits(s, j + 3, Len(s))

\* C24: right after a compare call, every return damage whose location is
\* malformed is flagged isNew, every return damage of an angle whose pickup
\* damages all have malformed locations is flagged isNew, and the call has
\* completed.
C24_MalformedLocationNeverMatches ==
    last.op = "compare"
    => /\ last.result \in {"ok", "not_found"}
       /\ last.result = "ok"
          => \A r \in DOMAIN damages :
                (/\ damages[r].phase = "return"
                 /\ \/ ~ExactLocation(damages[r].location)
                    \/ \A p \in getDamagesByAngleAndPhase(damages, damages[r].angle, "pickup") :
                          ~ExactLocation(damages[p].location))
                => damages[r].isNew

\* C25: the parser returns a location for the location string of a damage
\* exactly when the whole string has the form x:<int>,y:<int>, and returns
\* none (without throwing) for every other string, also for one that contains
\* the form after or before other characters.
C25_ParserAcceptsExactFormOnly ==
    \A i \in DOMAIN damages :
        (parseLocation(damages[i].location) # <<>>) <=> ExactLocation(damages[i].location)

\* C26: for every two damages a and b of the table, well-formed or not,
\* isDamageLocationMatch(a, b) and isDamageLocationMatch(b, a) are equal.
C26_MatchIsSymmetric ==
    \A i, j \in DOMAIN damages :
        isDamageLocationMatch(damages[i], damages[j], DefaultThreshold)
          = isDamageLocationMatch(damages[j], damages[i], DefaultThreshold)

\* C26 witness: a comparison has run over a front pickup damage with the
\* malformed location x:150,y:100px and two front return damages, one that it
\* matches at distance 50 and one that it does not match.
C26_Witness ==
    /\ last.op = "compare"
    /\ last.result = "ok"
    /\ \E p, r, q \in DOMAIN damages :
          /\ damages[p].phase = "pickup"
          /\ damages[r].phase = "return"
          /\ damages[q].phase = "return"
          /\ damages[p].location = Loc_150_100px
          /\ damages[r].location = Loc_150_150
          /\ damages[q].location = Loc_260_100
          /\ isDamageLocationMatch(damages[r], damages[p], DefaultThreshold)
          /\ ~isDamageLocationMatch(damages[q], damages[p], DefaultThreshold)

\* C27: a successful analyzePickup (or analyzeReturn) call that directly
\* follows a successful call of the same function, with the photos and the
\* active provider unchanged, adds no damage row: the rows of every (angle,
\* phase) and totalDamageCost are the same after it as before it.
C27_RepeatedAnalysisAddsNoDamage ==
    [][(/\ last'.op \in {"analyzePickup", "analyzeReturn"}
        /\ last'.result = "ok"
        /\ last'.again
        /\ last.op = last'.op
        /\ photos' = photos
        /\ activeProvider' = activeProvider)
       => /\ \A k \in PhotoKeys :
                getDamagesByAngleAndPhase(damages', k[2], k[1])
                  = getDamagesByAngleAndPhase(damages, k[2], k[1])
          /\ \A id \in DOMAIN assessments :
                assessments'[id].totalDamageCost = assessments[id].totalDamageCost]_vars

\* C28: in every state, under every interleaving of analyzePickup,
\* analyzeReturn and compare requests, the stored newDamageCost of every
\* assessment is at most its stored totalDamageCost.
C28_NewCostAtMostTotalCost ==
    \A id \in DOMAIN assessments :
        assessments[id].newDamageCost <= assessments[id].totalDamageCost

\* C28 witness: a comparison that ran while an analysis was in flight has
\* stored a positive newDamageCost below totalDamageCost, and the analysis is
\* still in its loop.
C28_Witness ==
    /\ last.op = "compare"
    /\ last.result = "ok"
    /\ \E w \in 1..NumAnalyzers : analyses[w].pc = "loop"
    /\ \E id \in DOMAIN assessments :
          /\ assessments[id].newDamageCost > 0
          /\ assessments[id].newDamageCost < assessments[id].totalDamageCost

\* C29: the detections of one analyzePickup or analyzeReturn call are all
\* performed by one provider, also when the active provider is switched while
\* the call runs: neither a call in flight nor the latest finished call has
\* invoked two different providers.
C29_OneProviderPerAnalysis ==
    /\ Cardinality({call[1] : call \in invoked}) <= 1
    /\ \A w \in 1..NumAnalyzers : Cardinality({call[1] : call \in analyses[w].invoked}) <= 1

\* C30: in every state of the registry the active provider, when one is set,
\* is the object the providers map currently holds under its name, also after
\* a name was registered again with another object.
C30_ActiveProviderIsRegistered ==
    activeProvider # NoProvider
    => /\ activeProvider \in providers
       /\ instances.registered[activeProvider] = instances.active
====
